---- MODULE Spec2Model ----
(***************************************************************************)
(* Model of setup.py: the build_py command BuildPy.run and the helpers     *)
(* find_protoc, get_proto_files and compile_proto.                         *)
(*                                                                         *)
(* The environment (PROTOC, the search path, the schema root directory)    *)
(* is chosen in Init and is not changed by the build itself, except for    *)
(* the marker file the build creates.  A path has one of three kinds:      *)
(*   "missing"  nothing at that path                                       *)
(*   "nonexec"  the path exists but cannot be executed (a directory, a     *)
(*              file without the x bit)                                    *)
(*   "exec"     an executable file                                         *)
(* Each subprocess is two steps, its start and its exit, so that the       *)
(* order of subprocesses is observable.                                    *)
(***************************************************************************)
EXTENDS Integers, Sequences, FiniteSets, TLC

\* Bounds of the model.
MaxFiles == 3
MaxPath == 2

FileIds == 1..MaxFiles
Kinds == {"missing", "nonexec", "exec"}
Unset == "unset"
NotFound == [src |-> "none", idx |-> 0, kind |-> "missing"]

VARIABLES
    environ,        \* os.environ["PROTOC"]: Unset, or the kind of the path it names
    searchPath,     \* PATH: for each directory, the kind of its "protoc" entry
    fsProto,        \* the *.proto files under PROTO_DIR, in rglob order
    dirExists,      \* PROTO_DIR exists
    markerExists,   \* PROTO_DIR/__init__.py exists
    markerPre,      \* markerExists at the start of the build
    markerWrites,   \* number of touch() calls made on the marker
    pc,             \* position of the build
    proto_files,    \* local of BuildPy.run
    warned,         \* the "No .proto files found" warning was printed
    idx,            \* position of the for loop in proto_files
    protoc,         \* local of compile_proto: the resolved compiler
    findLog,        \* results of the find_protoc evaluations, in order
    running,        \* subprocesses currently alive
    events,         \* subprocess starts and exits, in order
    attempts,       \* compile commands handed to subprocess.run, in order
    bindings,       \* per file id: _pb2.py files emitted in this build
    stubs,          \* per file id: _pb2.pyi files emitted in this build
    exitCode,       \* process exit status (-1 while running)
    exitMsg,        \* message passed to sys.exit
    crashAt,        \* where an uncaught exception left BuildPy.run
    finalized,      \* the marker step (lines 98-102) has completed
    packaged        \* super().run() has been executed

vars == <<environ, searchPath, fsProto, dirExists, markerExists, markerPre,
          markerWrites, pc, proto_files, warned, idx, protoc, findLog,
          running, events, attempts, bindings, stubs, exitCode, exitMsg,
          crashAt, finalized, packaged>>

envVars == <<environ, searchPath, fsProto, dirExists, markerPre>>

\* Sequences over S of length at most n.
RECURSIVE SeqsUpTo(_, _)
SeqsUpTo(S, n) ==
    IF n = 0 THEN {<<>>}
    ELSE LET shorter == SeqsUpTo(S, n - 1)
         IN shorter \cup {Append(s, x) : s \in {t \in shorter : Len(t) = n - 1}, x \in S}

Injective(s) ==
    \A a, b \in 1..Len(s) : s[a] = s[b] => a = b

\* shutil.which("protoc"): the first search-path directory whose entry is an
\* executable file; 0 when there is none.
RECURSIVE whichFrom(_, _)
whichFrom(path, k) ==
    IF k > Len(path) THEN 0
    ELSE IF path[k] = "exec" THEN k
    ELSE whichFrom(path, k + 1)

which(path) ==
    whichFrom(path, 1)

\* Path(p).exists()
exists(kind) ==
    kind \in {"nonexec", "exec"}

find_protoc_pathfirst(env, path) ==
    IF which(path) # 0
    THEN [src |-> "path", idx |-> which(path), kind |-> path[which(path)]]
    ELSE IF env # Unset /\ exists(env)
    THEN [src |-> "env", idx |-> 0, kind |-> env]
    ELSE NotFound

find_protoc(env, path) ==
    IF env # Unset /\ exists(env)
    THEN [src |-> "env", idx |-> 0, kind |-> env]
    ELSE IF which(path) # 0
    THEN [src |-> "path", idx |-> which(path), kind |-> path[which(path)]]
    ELSE NotFound

\* get_proto_files: rglob yields nothing under a directory that does not exist.
get_proto_files(present, files) ==
    IF present THEN files ELSE <<>>

Init ==
    /\ environ \in {Unset} \cup Kinds
    /\ searchPath \in SeqsUpTo(Kinds, MaxPath)
    /\ dirExists \in BOOLEAN
    /\ fsProto \in {s \in SeqsUpTo(FileIds, MaxFiles) : Injective(s)}
    /\ (~dirExists => fsProto = <<>>)
    /\ markerExists \in BOOLEAN
    /\ (markerExists => dirExists)
    /\ markerPre = markerExists
    /\ markerWrites = 0
    /\ pc = "start"
    /\ proto_files = <<>>
    /\ warned = FALSE
    /\ idx = 0
    /\ protoc = NotFound
    /\ findLog = <<>>
    /\ running = {}
    /\ events = <<>>
    /\ attempts = <<>>
    /\ bindings = [f \in FileIds |-> 0]
    /\ stubs = [f \in FileIds |-> 0]
    /\ exitCode = -1
    /\ exitMsg = "none"
    /\ crashAt = "none"
    /\ finalized = FALSE
    /\ packaged = FALSE

\* BuildPy.run, lines 90-95: discovery, the warning, entry of the loop.
Discover ==
    /\ pc = "start"
    /\ proto_files' = get_proto_files(dirExists, fsProto)
    /\ warned' = (proto_files' = <<>>)
    /\ idx' = IF proto_files' = <<>> THEN 0 ELSE 1
    /\ pc' = IF proto_files' = <<>> THEN "finalize" ELSE "find"
    /\ UNCHANGED <<envVars, markerExists, markerWrites, protoc, findLog, running,
                   events, attempts, bindings, stubs, exitCode, exitMsg,
                   crashAt, finalized, packaged>>

\* sys.exit(<str>) prints the string and exits with status 1.
FatalStatus == 1

ExitCodes == {0, 1}

\* Whether the operating system can execute the path (subprocess raises
\* OSError otherwise).
canExec(kind) ==
    kind = "exec"

afterFind_continue(r) ==
    IF r.src = "none" THEN "finalize" ELSE "probe"

\* find_protoc, lines 26-35 as seen by its caller: either a path comes back
\* and compile_proto goes on to the version probe, or sys.exit ends the build.
afterFind(r) ==
    IF r.src = "none" THEN "exited" ELSE "probe"

\* compile_proto, line 48, with find_protoc inlined.
FindProtoc ==
    /\ pc = "find"
    /\ LET r == find_protoc(environ, searchPath)
       IN /\ findLog' = Append(findLog, r)
          /\ pc' = afterFind(r)
          /\ protoc' = IF r.src = "none" THEN protoc ELSE r
          /\ exitCode' = IF pc' = "exited" THEN FatalStatus ELSE exitCode
          /\ exitMsg' = IF pc' = "exited" THEN "protoc not found" ELSE exitMsg
    /\ UNCHANGED <<envVars, markerExists, markerWrites, proto_files, warned, idx,
                   running, events, attempts, bindings, stubs, crashAt,
                   finalized, packaged>>

onProbeOSError_suppressed ==
    "compile"

\* Lines 51-57: the try block catches subprocess.CalledProcessError only; an
\* OSError raised by check_output leaves compile_proto and BuildPy.run.
onProbeOSError ==
    "crashed"

\* Lines 52-54: check_output starts `protoc --version`.
ProbeStart ==
    /\ pc = "probe"
    /\ IF canExec(protoc.kind)
       THEN /\ running' = running \cup {<<"probe", proto_files[idx]>>}
            /\ events' = Append(events, [ev |-> "start", what |-> "probe",
                                         file |-> proto_files[idx], rc |-> -1])
            /\ pc' = "probing"
            /\ UNCHANGED crashAt
       ELSE /\ pc' = onProbeOSError
            /\ crashAt' = IF pc' = "crashed" THEN "probe" ELSE crashAt
            /\ UNCHANGED <<running, events>>
    /\ UNCHANGED <<envVars, markerExists, markerWrites, proto_files, warned, idx,
                   protoc, findLog, attempts, bindings, stubs, exitCode, exitMsg,
                   finalized, packaged>>

\* Lines 52-57: the probe exits; a non-zero status raises CalledProcessError,
\* which is caught and dropped.
ProbeExit ==
    /\ pc = "probing"
    /\ \E rc \in ExitCodes :
          events' = Append(events, [ev |-> "exit", what |-> "probe",
                                    file |-> proto_files[idx], rc |-> rc])
    /\ running' = running \ {<<"probe", proto_files[idx]>>}
    /\ pc' = "compile"
    /\ UNCHANGED <<envVars, markerExists, markerWrites, proto_files, warned, idx,
                   protoc, findLog, attempts, bindings, stubs, exitCode, exitMsg,
                   crashAt, finalized, packaged>>

protoc_command_nostub(p, source) ==
    [exe |-> p, flags |-> <<"--proto_path", "--python_out">>, source |-> source]

\* Lines 59-65.
protoc_command(p, source) ==
    [exe |-> p, flags |-> <<"--proto_path", "--python_out", "--pyi_out">>,
     source |-> source]

HasFlag(cmd, flag) ==
    \E k \in 1..Len(cmd.flags) : cmd.flags[k] = flag

\* Lines 59-70: the command is built and handed to subprocess.run.
CompileStart ==
    /\ pc = "compile"
    /\ attempts' = Append(attempts, protoc_command(protoc, proto_files[idx]))
    /\ IF canExec(protoc.kind)
       THEN /\ running' = running \cup {<<"compile", proto_files[idx]>>}
            /\ events' = Append(events, [ev |-> "start", what |-> "compile",
                                         file |-> proto_files[idx], rc |-> -1])
            /\ pc' = "compiling"
            /\ UNCHANGED crashAt
       ELSE /\ pc' = "crashed"
            /\ crashAt' = "compile"
            /\ UNCHANGED <<running, events>>
    /\ UNCHANGED <<envVars, markerExists, markerWrites, proto_files, warned, idx,
                   protoc, findLog, bindings, stubs, exitCode, exitMsg,
                   finalized, packaged>>

afterCompile_continue(rc, i, n) ==
    IF i < n THEN [pc |-> "find", idx |-> i + 1] ELSE [pc |-> "finalize", idx |-> i]

afterCompile_cached(rc, i, n) ==
    IF rc # 0 THEN [pc |-> "exited", idx |-> i]
    ELSE IF i < n THEN [pc |-> "probe", idx |-> i + 1]
    ELSE [pc |-> "finalize", idx |-> i]

afterCompile_break(rc, i, n) ==
    IF rc # 0 THEN [pc |-> "finalize", idx |-> i]
    ELSE IF i < n THEN [pc |-> "find", idx |-> i + 1]
    ELSE [pc |-> "finalize", idx |-> i]

\* Lines 69-78 and the for loop of lines 95-96: a non-zero status raises
\* CalledProcessError, whose handler calls sys.exit; otherwise compile_proto
\* returns and the loop takes the next file or ends.
afterCompile(rc, i, n) ==
    IF rc # 0 THEN [pc |-> "exited", idx |-> i]
    ELSE IF i < n THEN [pc |-> "find", idx |-> i + 1]
    ELSE [pc |-> "finalize", idx |-> i]

\* Line 70 returning: the compile subprocess exits.  A compiler that succeeds
\* emits one file per output flag it was given.
CompileExit ==
    /\ pc = "compiling"
    /\ \E rc \in ExitCodes :
          LET f == proto_files[idx]
              cmd == attempts[Len(attempts)]
              nxt == afterCompile(rc, idx, Len(proto_files))
          IN /\ events' = Append(events, [ev |-> "exit", what |-> "compile",
                                          file |-> f, rc |-> rc])
             /\ running' = running \ {<<"compile", f>>}
             /\ bindings' = IF rc = 0 /\ HasFlag(cmd, "--python_out")
                            THEN [bindings EXCEPT ![cmd.source] = @ + 1]
                            ELSE bindings
             /\ stubs' = IF rc = 0 /\ HasFlag(cmd, "--pyi_out")
                         THEN [stubs EXCEPT ![cmd.source] = @ + 1]
                         ELSE stubs
             /\ pc' = nxt.pc
             /\ idx' = nxt.idx
             /\ exitCode' = IF nxt.pc = "exited" THEN FatalStatus ELSE exitCode
             /\ exitMsg' = IF nxt.pc = "exited" THEN "failed to compile" ELSE exitMsg
    /\ UNCHANGED <<envVars, markerExists, markerWrites, proto_files, warned,
                   protoc, findLog, attempts, crashAt, finalized, packaged>>

needsTouch_always(present) ==
    TRUE

\* Line 100.
needsTouch(present) ==
    ~present

\* Lines 98-102: touch() creates the marker; it raises FileNotFoundError when
\* PROTO_DIR does not exist, and nothing catches it.
Finalize ==
    /\ pc = "finalize"
    /\ IF needsTouch(markerExists)
       THEN IF dirExists
            THEN /\ markerExists' = TRUE
                 /\ markerWrites' = markerWrites + 1
                 /\ finalized' = TRUE
                 /\ pc' = "package"
                 /\ UNCHANGED crashAt
            ELSE /\ pc' = "crashed"
                 /\ crashAt' = "touch"
                 /\ UNCHANGED <<markerExists, markerWrites, finalized>>
       ELSE /\ finalized' = TRUE
            /\ pc' = "package"
            /\ UNCHANGED <<markerExists, markerWrites, crashAt>>
    /\ UNCHANGED <<envVars, proto_files, warned, idx, protoc, findLog, running,
                   events, attempts, bindings, stubs, exitCode, exitMsg, packaged>>

\* Line 109: super().run().
Package ==
    /\ pc = "package"
    /\ packaged' = TRUE
    /\ pc' = "done"
    /\ UNCHANGED <<envVars, markerExists, markerWrites, proto_files, warned, idx,
                   protoc, findLog, running, events, attempts, bindings, stubs,
                   exitCode, exitMsg, crashAt, finalized>>

Next ==
    \/ Discover
    \/ FindProtoc
    \/ ProbeStart
    \/ ProbeExit
    \/ CompileStart
    \/ CompileExit
    \/ Finalize
    \/ Package

Spec ==
    Init /\ [][Next]_vars

(***************************************************************************)
(* Vocabulary of the properties, stated on the environment and on the      *)
(* recorded history rather than through the operators above.               *)
(***************************************************************************)

OverrideUsable ==
    environ \in {"nonexec", "exec"}

OnSearchPath ==
    \E k \in 1..Len(searchPath) : searchPath[k] = "exec"

FirstOnSearchPath ==
    CHOOSE k \in 1..Len(searchPath) :
        /\ searchPath[k] = "exec"
        /\ \A j \in 1..(k - 1) : searchPath[j] # "exec"

NoCompiler ==
    ~OverrideUsable /\ ~OnSearchPath

IsCompileExit(e) ==
    e.ev = "exit" /\ e.what = "compile"

Discovered ==
    {proto_files[k] : k \in 1..Len(proto_files)}

\* C1: once the compile subprocess of a file has exited non-zero, the build
\* has ended in sys.exit with the compile-failure message and status 1, and
\* that exit is the last subprocess event of the build: no version probe and
\* no compile is started for any later file.
C1_FirstFailureAborts ==
    \A p \in 1..Len(events) :
        (IsCompileExit(events[p]) /\ events[p].rc # 0) =>
            /\ p = Len(events)
            /\ running = {}
            /\ pc = "exited"
            /\ exitCode = FatalStatus
            /\ exitMsg = "failed to compile"
            /\ Len(attempts) = idx
            /\ ~packaged

C1_Witness ==
    /\ Len(events) > 0
    /\ IsCompileExit(events[Len(events)])
    /\ events[Len(events)].rc # 0
    /\ idx < Len(proto_files)

\* C2 (as claimed): when discovery returns no schema file, in every
\* environment the build starts no subprocess, does not fail, and goes on to
\* the packaging step.
C2_EmptySetNeverFails ==
    (pc # "start" /\ proto_files = <<>>) =>
        /\ events = <<>>
        /\ attempts = <<>>
        /\ findLog = <<>>
        /\ exitCode = -1
        /\ crashAt = "none"
        /\ pc \in {"finalize", "package", "done"}

\* C3: every evaluation of find_protoc returns the PROTOC path when PROTOC is
\* set and names an existing path, whatever the search path holds; otherwise
\* the first search-path match; and with neither, the build has exited with
\* the "not found" message.
C3_ResolutionOrder ==
    \A k \in 1..Len(findLog) :
        /\ OverrideUsable => findLog[k].src = "env" /\ findLog[k].kind = environ
        /\ (~OverrideUsable /\ OnSearchPath) =>
              findLog[k].src = "path" /\ findLog[k].idx = FirstOnSearchPath
        /\ NoCompiler =>
              /\ findLog[k].src = "none"
              /\ pc = "exited"
              /\ exitMsg = "protoc not found"

C3_Witness ==
    /\ Len(findLog) > 0
    /\ OverrideUsable
    /\ OnSearchPath
    /\ findLog[1].src = "env"

\* C4: after a build that completed the marker exists, and a marker that
\* existed before the build is never written by it.
C4_MarkerIdempotent ==
    /\ pc = "done" => markerExists
    /\ markerPre => (markerExists /\ markerWrites = 0)
    /\ markerWrites <= 1

C4_Witness ==
    pc = "done" /\ markerPre /\ markerWrites = 0 /\ finalized

\* C5 (as claimed): when no compiler can be resolved, the marker step and the
\* packaging step are never reached, however many schema files there are.
C5_MissingCompilerAlwaysStops ==
    NoCompiler => (~finalized /\ ~packaged)

\* C5 (amended): when no compiler can be resolved and at least one schema
\* file is discovered, the build exits with status 1 and the "not found"
\* message at the first file, before any subprocess, and neither the marker
\* step nor the packaging step is reached.
C5_MissingCompilerStops ==
    (NoCompiler /\ fsProto # <<>>) =>
        /\ ~finalized
        /\ ~packaged
        /\ markerWrites = 0
        /\ events = <<>>
        /\ pc \in {"start", "find", "exited"}
        /\ pc = "exited" =>
              /\ exitCode = FatalStatus
              /\ exitMsg = "protoc not found"
              /\ idx = 1

C5_Witness ==
    NoCompiler /\ Len(fsProto) > 1 /\ pc = "exited" /\ ~markerPre

\* C6 (as claimed): no failure of the version probe ends the build; after the
\* probe step compile_proto is at the compile invocation of the same file.
C6_ProbeNeverFatal ==
    crashAt # "probe"

\* C7: every compile command handed to subprocess.run names a compiler path
\* that exists and can be executed, for a PROTOC path and a search-path one.
C7_CompilerExecutable ==
    \A k \in 1..Len(attempts) :
        /\ exists(attempts[k].exe.kind)
        /\ attempts[k].exe.kind = "exec"
        /\ attempts[k].exe.src \in {"env", "path"}

C7_Witness ==
    /\ Len(attempts) > 0
    /\ attempts[1].exe.src = "env"
    /\ pc = "compiling"

\* C8 (as claimed): a build that runs to the end has evaluated find_protoc
\* exactly once.
C8_ResolvedOnce ==
    pc = "done" => Len(findLog) = 1

\* C8 (amended): find_protoc is evaluated once per compile_proto call, that
\* is once for every schema file whose compilation is started (as many times
\* as there are files in a build that ends normally, never for an empty
\* set); all evaluations of one build return the same path, and each
\* file's compile command uses the path resolved for that file.
C8_ResolvedPerFile ==
    /\ Len(findLog) = (IF pc = "find" THEN idx - 1 ELSE idx)
    /\ pc = "done" => Len(findLog) = Len(proto_files)
    /\ \A a, b \in 1..Len(findLog) : findLog[a] = findLog[b]
    /\ \A k \in 1..Len(attempts) : attempts[k].exe = findLog[k]

C8_Witness ==
    pc = "done" /\ Len(proto_files) > 1 /\ Len(findLog) = Len(proto_files)

Alternates ==
    \A p \in 1..Len(events) :
        IF p % 2 = 1
        THEN events[p].ev = "start"
        ELSE /\ events[p].ev = "exit"
             /\ events[p].what = events[p - 1].what
             /\ events[p].file = events[p - 1].file

\* C9: at most one subprocess is alive at any time and each one exits before
\* the next starts; in a build that ends normally the compile commands are
\* one per discovered file, in discovery order, each with the binding and the
\* stub output flag, and each discovered file has exactly one binding and one
\* stub while no other file has any.
C9_SequentialExactlyOnce ==
    /\ Cardinality(running) <= 1
    /\ Alternates
    /\ running = {} <=> Len(events) % 2 = 0
    /\ \A k \in 1..Len(attempts) :
          /\ attempts[k].source = proto_files[k]
          /\ attempts[k].flags = <<"--proto_path", "--python_out", "--pyi_out">>
    /\ pc = "done" =>
          /\ Len(attempts) = Len(proto_files)
          /\ \A f \in FileIds :
                /\ bindings[f] = (IF f \in Discovered THEN 1 ELSE 0)
                /\ stubs[f] = (IF f \in Discovered THEN 1 ELSE 0)

C9_Witness ==
    /\ pc = "done"
    /\ Len(proto_files) > 1
    /\ Discovered # FileIds
    /\ \A f \in Discovered : bindings[f] = 1 /\ stubs[f] = 1

CompiledOK(f) ==
    \E p \in 1..Len(events) :
        IsCompileExit(events[p]) /\ events[p].file = f /\ events[p].rc = 0

\* C10: packaging runs only after every discovered file compiled with status
\* 0 and the marker step has run; once a fatal condition has ended the build
\* (sys.exit for a missing compiler or a failed compile) the driver has not
\* created the marker, has not run packaging, and takes no further step.
C10_HandOffOrdering ==
    /\ pc \in {"package", "done"} => finalized
    /\ packaged =>
          /\ finalized
          /\ markerExists
          /\ \A f \in Discovered : CompiledOK(f)
          /\ exitCode = -1
          /\ crashAt = "none"
    /\ finalized => \A f \in Discovered : CompiledOK(f)
    /\ exitCode # -1 =>
          /\ pc = "exited"
          /\ ~finalized
          /\ ~packaged
          /\ markerWrites = 0
          /\ markerExists = markerPre
          /\ running = {}

C10_Witness ==
    /\ packaged
    /\ Len(proto_files) > 1
    /\ markerWrites = 1

TypeOK ==
    /\ pc \in {"start", "find", "probe", "probing", "compile", "compiling",
               "finalize", "package", "done", "exited", "crashed"}
    /\ idx \in 0..Len(proto_files)
    /\ exitCode \in {-1, FatalStatus}
    /\ crashAt \in {"none", "probe", "compile", "touch"}
====
